---- MODULE Spec2Model ----
(***************************************************************************)
(* A model of src/matrix.rs: the dense matrix Mat2<T>, its structural      *)
(* mutations, its row algebra, its column view, Gauss-Jordan reduce() and  *)
(* the is_rref() validator.                                                *)
(*                                                                         *)
(* Indices are zero-based as in the source; TLA+ sequences are one-based,  *)
(* so row i of the source is data[i + 1] here.                             *)
(***************************************************************************)
EXTENDS Integers, Sequences, FiniteSets, TLC

VARIABLES
    data,    \* Mat2.data : the rows actually held
    n,       \* Mat2.n    : the stored row count
    m,       \* Mat2.m    : the stored column count
    status,  \* "ok", or how the task ended: "index_fail", "div_fail", "ub_crash"
    op,      \* the last public call and its arguments
    ret,     \* what the last public call returned
    pre,     \* data, n, m when the last public call began, and the call before it
    it,      \* the live ColumnIterator, if any: col, i, and what it has yielded
    calls    \* number of public calls made on the matrix so far

vars == <<data, n, m, status, op, ret, pre, it, calls>>

----------------------------------------------------------------------------
(* Bounds of the model. *)

\* Largest row count and column count of a constructed matrix.
MaxDim == 2

\* Number of public calls on the matrix in one behaviour.
MaxCalls == 2

\* Largest cell count of an input of the reduce / is_rref specification.
MaxCells == 6

----------------------------------------------------------------------------
(* The element type T.  The source is generic in T; reduce() needs         *)
(* Mul + Add + Div + Zero + One + Eq.  T is instantiated with the prime    *)
(* field of the integers modulo P, whose division fails on a divisor that  *)
(* has no inverse (zero).                                                  *)

P == 11

Elem == 0 .. (P - 1)

Zero == 0

One == 1

Add(a, b) == (a + b) % P

Mul(a, b) == (a * b) % P

HasInverse(b) == \E x \in Elem : Mul(b, x) = One

\* a / b; meaningful only when HasInverse(b)
Div(a, b) == Mul(a, CHOOSE x \in Elem : Mul(b, x) = One)

----------------------------------------------------------------------------
(* Small helpers over sequences. *)

\* All sequences over S of length exactly len.
SeqsOfLen(S, len) == [1 .. len -> S]

\* All len-by-width nested sequences over S.
MatsOfShape(S, rows, cols) == [1 .. rows -> [1 .. cols -> S]]

\* vec.get_opt(i) is Some
InBounds(s, i) == i >= 0 /\ i < Len(s)

\* The data satisfies the invariant stated at Mat2: rows rows, each of length cols.
HasShape(d, rows, cols) ==
    /\ Len(d) = rows
    /\ \A k \in 1 .. Len(d) : Len(d[k]) = cols

\* The data is a rows x cols matrix for some rows and cols.
Rectangular(d) == \A k \in 1 .. Len(d) : Len(d[k]) = Len(d[1])

NumRows(d) == Len(d)

NumCols(d) == IF Len(d) = 0 THEN 0 ELSE Len(d[1])

----------------------------------------------------------------------------
(* Constructors. *)

\* Mat2::new(n, m): every element is Default::default(), zero for a number.
MatNew(rows, cols) ==
    [data |-> [i \in 1 .. rows |-> [j \in 1 .. cols |-> Zero]],
     n |-> rows, m |-> cols]

\* Mat2::new_with(n, m, f): element (i, j) is f(i, j).
MatNewWith(rows, cols, f) ==
    [data |-> [i \in 1 .. rows |-> [j \in 1 .. cols |-> f[i - 1, j - 1]]],
     n |-> rows, m |-> cols]

\* Mat2::from_vec(v): <<>> is None, <<mat>> is Some(mat).
FromVec(v) ==
    IF Len(v) = 0
    THEN <<>>
    ELSE IF \A k \in 1 .. Len(v) : Len(v[k]) = Len(v[1])
         THEN << [data |-> v, n |-> Len(v), m |-> Len(v[1])] >>
         ELSE <<>>

\* The matrices the three constructors build with the given shapes (pairs
\* <<rows, cols>>) and element values; from_vec is also given an empty and a
\* jagged vector, which it refuses.
Constructed(shapes, vals) ==
    LET byNew == { MatNew(s[1], s[2]) : s \in shapes }
        byNewWith ==
            UNION { { MatNewWith(s[1], s[2], f) :
                        f \in [(0 .. s[1] - 1) \X (0 .. s[2] - 1) -> vals] } :
                    s \in shapes }
        vecs == UNION { MatsOfShape(vals, s[1], s[2]) : s \in shapes }
                  \cup { <<>>, << <<1, 2>>, <<1>> >> }
        byFromVec == { FromVec(v)[1] : v \in { w \in vecs : FromVec(w) # <<>> } }
    IN  byNew \cup byNewWith \cup byFromVec

----------------------------------------------------------------------------
(* Accessors.  An Option is a sequence: <<>> is None and <<x>> is Some(x).  *)
(* A call that fails (fail!, the task ends) has status "index_fail".        *)

\* self.data[i][j] does not fail
CellInBounds(d, i, j) == InBounds(d, i) /\ InBounds(d[i + 1], j)

\* get_dimension(): (self.m, self.n)
GetDimension(sn, sm) == <<sm, sn>>

\* get_opt(i, j): the bound check of the source, then self.data[i][j]
GetOpt(d, sn, sm, i, j) ==
    IF i > sm \/ j > sn
    THEN [status |-> "ok", ret |-> <<>>]
    ELSE IF CellInBounds(d, i, j)
         THEN [status |-> "ok", ret |-> << d[i + 1][j + 1] >>]
         ELSE [status |-> "index_fail", ret |-> <<>>]

\* get(i, j): self.data[i][j]
Get(d, i, j) ==
    IF CellInBounds(d, i, j)
    THEN [status |-> "ok", ret |-> << d[i + 1][j + 1] >>]
    ELSE [status |-> "index_fail", ret |-> <<>>]

----------------------------------------------------------------------------
(* The column view. *)

\* ColumnNext stopping one row early.
ColumnNextStopsEarly(d, col, i) ==
    IF InBounds(d, i + 1)
    THEN IF InBounds(d[i + 1], col) THEN << d[i + 1][col + 1] >> ELSE <<>>
    ELSE <<>>

\* ColumnIterator::next on an iterator at row i of column col: the Option it
\* returns.
ColumnNext(d, col, i) ==
    IF InBounds(d, i)
    THEN IF InBounds(d[i + 1], col) THEN << d[i + 1][col + 1] >> ELSE <<>>
    ELSE <<>>

\* Everything column_iter(col) yields from row i on, until the first None.
RECURSIVE ColumnFrom(_, _, _)
ColumnFrom(d, col, i) ==
    LET r == ColumnNext(d, col, i)
    IN  IF r = <<>> THEN <<>> ELSE <<r[1]>> \o ColumnFrom(d, col, i + 1)

\* iterator.skip(k), collected
Skip(s, k) == SubSeq(s, k + 1, Len(s))

----------------------------------------------------------------------------
(* Structural mutation.  Each operator gives the call's outcome as a record *)
(* [data, n, m, status, ret]; one whose code has undefined behaviour gives  *)
(* the set of outcomes a build can produce.                                 *)

Outcome(d, sn, sm, st, r) ==
    [data |-> d, n |-> sn, m |-> sm, status |-> st, ret |-> r]

\* swap_rows(i, j): self.data.swap(i, j)
SwapRows(d, sn, sm, i, j) ==
    IF InBounds(d, i) /\ InBounds(d, j)
    THEN Outcome([d EXCEPT ![i + 1] = d[j + 1], ![j + 1] = d[i + 1]],
                 sn, sm, "ok", "unit")
    ELSE Outcome(d, sn, sm, "index_fail", "unit")

\* set_row(i, r): self.data[i] = r
SetRow(d, sn, sm, i, r) ==
    IF InBounds(d, i)
    THEN Outcome([d EXCEPT ![i + 1] = r], sn, sm, "ok", "unit")
    ELSE Outcome(d, sn, sm, "index_fail", "unit")

\* Values a stray write can leave in a row.
StrayRows == { <<>>, <<0>>, <<1, 1>> }

\* What a push through unsafe_mut_ref(idx) with idx >= data.len() can do to the
\* matrix: end the process, write somewhere the matrix does not show, or
\* overwrite a row.
UndefinedPush(d, sn, sm) ==
    { Outcome(d, sn, sm, "ub_crash", "unit"),
      Outcome(d, sn, sm, "ok", TRUE) }
    \cup { Outcome([d EXCEPT ![k] = v], sn, sm, "ok", TRUE) :
             k \in 1 .. Len(d), v \in StrayRows }

\* append_column(column)
AppendColumn(d, sn, sm, column) ==
    IF sn # Len(column)
    THEN { Outcome(d, sn, sm, "ok", FALSE) }
    ELSE LET pushed == [k \in 1 .. Len(d) |->
                           IF k <= Len(column)
                           THEN Append(d[k], column[k])
                           ELSE d[k]]
         IN  IF Len(column) <= Len(d)
             THEN { Outcome(pushed, sn + 1, sm, "ok", TRUE) }
             ELSE UndefinedPush(pushed, sn + 1, sm)

\* append_row(row)
AppendRow(d, sn, sm, row) ==
    IF sm # Len(row)
    THEN Outcome(d, sn, sm, "ok", FALSE)
    ELSE Outcome(Append(d, row), sn + 1, sm, "ok", TRUE)

\* augment(other)
Augment(d, sn, sm, other) ==
    IF sn # other.n
    THEN { Outcome(d, sn, sm, "ok", FALSE) }
    ELSE LET pushed == [k \in 1 .. Len(d) |->
                           IF k <= Len(other.data)
                           THEN d[k] \o other.data[k]
                           ELSE d[k]]
         IN  IF Len(other.data) <= Len(d)
             THEN { Outcome(pushed, sn, sm + other.m, "ok", TRUE) }
             ELSE UndefinedPush(pushed, sn, sm + other.m)

----------------------------------------------------------------------------
(* Row algebra. *)

\* The row scale_row(i, a) leaves in place of row i.
ScaledRow(row, a) == [idx \in 1 .. Len(row) |-> Mul(row[idx], a)]

\* scale_row(i, a)
ScaleRow(d, sn, sm, i, a) ==
    IF InBounds(d, i)
    THEN Outcome([d EXCEPT ![i + 1] = ScaledRow(d[i + 1], a)], sn, sm, "ok", "unit")
    ELSE Outcome(d, sn, sm, "index_fail", "unit")

\* AddScaledRow scaling the target row instead of the source row.
AddScaledRowScalesTarget(d, i, j, a) ==
    [idx \in 1 .. Len(d[i + 1]) |-> Add(d[i + 1][idx], Mul(d[j + 1][idx], a))]

\* The row r that add_scaled(i, j, a) builds: x * a + self.data[j][idx] for each
\* element x of row i.
AddScaledRow(d, i, j, a) ==
    [idx \in 1 .. Len(d[i + 1]) |-> Add(Mul(d[i + 1][idx], a), d[j + 1][idx])]

\* add_scaled(i, j, a): builds r, then set_row(j, r)
AddScaled(d, sn, sm, i, j, a) ==
    IF /\ InBounds(d, i)
       /\ InBounds(d, j)
       /\ Len(d[i + 1]) <= Len(d[j + 1])
    THEN SetRow(d, sn, sm, j, AddScaledRow(d, i, j, a))
    ELSE Outcome(d, sn, sm, "index_fail", "unit")

----------------------------------------------------------------------------
(* reduce().  lm and ln are the locals m and n of the source, which are     *)
(* (self.n, self.m): the stored row count and the stored column count.      *)
(* pivots logs, for each scaling, the row, the column and the entry that    *)
(* one is divided by, and the entry at that place right after the scaling   *)
(* (none when the division fails).                                          *)

AllZero(s) == \A k \in 1 .. Len(s) : s[k] = Zero

\* ScaleFactor without the division.
ScaleFactorNotInverted(d, r, j) == d[r + 1][j + 1]

\* let scale_factor = one::<T>() / *self.get(r, j)
ScaleFactor(d, r, j) == Div(One, d[r + 1][j + 1])

\* Whether the body of `for k in range(1, m)` runs at all before `k == r` breaks.
InnerBodyRuns(lm, r) == \E k \in 1 .. (lm - 1) : k < r

\* swap_rows(i, r) with r already incremented
ReduceSwap(d, i, r) == SwapRows(d, 0, 0, i, r)

\* One scaling of reduce: scale_row(r, one / get(r, j))
Pivot(r, j, entry, after) == [row |-> r, col |-> j, divisor |-> entry, after |-> after]

ReduceEnd(d, st, pivots) == [data |-> d, status |-> st, pivots |-> pivots]

RECURSIVE ReduceLoop(_, _, _, _, _, _)
ReduceLoop(d, lm, ln, j, r, pivots) ==
    IF j >= ln
    THEN ReduceEnd(d, "ok", pivots)
    ELSE LET i == r + 1
         IN  IF AllZero(Skip(ColumnFrom(d, j, 0), i))
             THEN ReduceLoop(d, lm, ln, j + 1, r, pivots)
             ELSE IF i < lm + 1
                  THEN LET r2 == r + 1
                           swapped == ReduceSwap(d, i, r2)
                       IN  IF swapped.status # "ok"
                           THEN ReduceEnd(d, "index_fail", pivots)
                           ELSE IF ~CellInBounds(swapped.data, r2, j)
                           THEN ReduceEnd(swapped.data, "index_fail", pivots)
                           ELSE LET entry == swapped.data[r2 + 1][j + 1]
                                IN  IF ~HasInverse(entry)
                                    THEN ReduceEnd(swapped.data, "div_fail",
                                                   Append(pivots, Pivot(r2, j, entry, <<>>)))
                                    ELSE LET scaled ==
                                                 ScaleRow(swapped.data, 0, 0, r2,
                                                          ScaleFactor(swapped.data, r2, j)).data
                                             log == Append(pivots,
                                                      Pivot(r2, j, entry, <<scaled[r2 + 1][j + 1]>>))
                                         IN  IF InnerBodyRuns(lm, r2)
                                                /\ ~CellInBounds(scaled, r2, i)
                                             THEN ReduceEnd(scaled, "index_fail", log)
                                             ELSE ReduceLoop(scaled, lm, ln, j + 1, r2, log)
                  ELSE ReduceLoop(d, lm, ln, j + 1, r, pivots)

\* reduce()
Reduce(d, sn, sm) ==
    LET e == ReduceLoop(d, sn, sm, 0, 0, <<>>)
    IN  Outcome(e.data, sn, sm, e.status, e.pivots)

----------------------------------------------------------------------------
(* is_rref() *)

\* One step of the fold over rows; tup is (seen_all_zero,
\* seen_non_zero_after_all_zero).
ZeroFold(tup, row) ==
    IF AllZero(row)
    THEN <<TRUE, tup[2]>>
    ELSE <<tup[1], IF tup[1] THEN TRUE ELSE FALSE>>

RECURSIVE FoldRows(_, _, _)
FoldRows(d, k, tup) ==
    IF k > Len(d) THEN tup ELSE FoldRows(d, k + 1, ZeroFold(tup, d[k]))

ZeroesNotAtEnd(d) == FoldRows(d, 1, <<FALSE, FALSE>>)[2]

\* The loop over column_iter(leftmostidx).enumerate(): no entry of the column
\* other than row rowidx's is nonzero.
ColumnClean(d, rowidx, leftmostidx) ==
    LET col == ColumnFrom(d, leftmostidx, 0)
    IN  \A colidx \in 0 .. (Len(col) - 1) :
            ~(colidx # rowidx /\ col[colidx + 1] # Zero)

\* LeadingOutOfOrder with the comparison turned around.
LeadingOutOfOrderReversed(leftmostidx, last_colidx) == leftmostidx > last_colidx

\* The check `if leftmostidx < last_colidx { return false; }`.
LeadingOutOfOrder(leftmostidx, last_colidx) == leftmostidx < last_colidx

\* The 'row loop from row rowidx on, and within a row the scan from
\* leftmostidx on (seen_leading_one still false).
RECURSIVE RowLoop(_, _, _)
RECURSIVE ValLoop(_, _, _, _)
ValLoop(d, rowidx, leftmostidx, last_colidx) ==
    IF leftmostidx >= Len(d[rowidx + 1])
    THEN RowLoop(d, rowidx + 1, last_colidx)
    ELSE LET val == d[rowidx + 1][leftmostidx + 1]
         IN  IF val # Zero
             THEN IF val # One
                  THEN FALSE
                  ELSE IF LeadingOutOfOrder(leftmostidx, last_colidx)
                  THEN FALSE
                  ELSE IF ~ColumnClean(d, rowidx, leftmostidx)
                  THEN FALSE
                  ELSE RowLoop(d, rowidx + 1, leftmostidx)
             ELSE ValLoop(d, rowidx, leftmostidx + 1, last_colidx)

RowLoop(d, rowidx, last_colidx) ==
    IF rowidx >= Len(d) THEN TRUE ELSE ValLoop(d, rowidx, 0, last_colidx)

\* is_rref()
IsRref(d) == IF ZeroesNotAtEnd(d) THEN FALSE ELSE RowLoop(d, 0, 0)

----------------------------------------------------------------------------
(* The state machine of the public interface. *)

\* Row and column indices passed to a call: in range and out of range.
Idx == 0 .. MaxDim

\* Scalars passed to scale_row and add_scaled.
Scalars == {0, 1, 2}

\* Rows and columns passed to set_row, append_row and append_column.
ArgVecs == UNION { SeqsOfLen({1, 2}, len) : len \in 0 .. (MaxDim + 1) }

\* Matrices passed to augment.
Others ==
    { MatNewWith(s[1], s[2],
                 [c \in (0 .. s[1] - 1) \X (0 .. s[2] - 1) |-> (c[1] + c[2] + 1) % 3]) :
        s \in (0 .. (MaxDim + 1)) \X (0 .. MaxDim) }

NoArgs == [i |-> 0, j |-> 0, a |-> 0, v |-> <<>>]

Call(name, args) == [name |-> name] @@ args

NoIter == [live |-> FALSE, col |-> 0, i |-> 0, log |-> <<>>]

Snapshot == [data |-> data, n |-> n, m |-> m, call |-> op.name]

\* The state after construction by new, new_with or a successful from_vec.
StartWith(mat) ==
    /\ data = mat.data
    /\ n = mat.n
    /\ m = mat.m
    /\ status = "ok"
    /\ op = Call("construct", NoArgs)
    /\ ret = "unit"
    /\ pre = [data |-> mat.data, n |-> mat.n, m |-> mat.m, call |-> "construct"]
    /\ it = NoIter
    /\ calls = 0

\* Shapes of up to MaxDim rows and MaxDim columns.
NonEmptyShapes == (1 .. MaxDim) \X (1 .. MaxDim)

Init == \E mat \in Constructed(NonEmptyShapes, {0, 1}) : StartWith(mat)

\* A mutating call (&mut self) with outcome o; any column view has ended
\* before it, since the view borrows the matrix.
Mutate(call, o) ==
    /\ data' = o.data
    /\ n' = o.n
    /\ m' = o.m
    /\ status' = o.status
    /\ ret' = o.ret
    /\ op' = call
    /\ pre' = Snapshot
    /\ it' = NoIter
    /\ calls' = calls + 1

\* A reading call (&self) with the given status and result.
Query(call, st, r) ==
    /\ status' = st
    /\ ret' = r
    /\ op' = call
    /\ pre' = Snapshot
    /\ it' = NoIter
    /\ calls' = calls + 1
    /\ UNCHANGED <<data, n, m>>

CanCall == status = "ok" /\ calls < MaxCalls

swap_rows ==
    /\ CanCall
    /\ \E i \in Idx, j \in Idx :
           Mutate(Call("swap_rows", [NoArgs EXCEPT !.i = i, !.j = j]),
                  SwapRows(data, n, m, i, j))

set_row ==
    /\ CanCall
    /\ \E i \in Idx, r \in ArgVecs :
           Mutate(Call("set_row", [NoArgs EXCEPT !.i = i, !.v = r]),
                  SetRow(data, n, m, i, r))

append_column ==
    /\ CanCall
    /\ \E column \in ArgVecs :
           \E o \in AppendColumn(data, n, m, column) :
               Mutate(Call("append_column", [NoArgs EXCEPT !.v = column]), o)

append_row ==
    /\ CanCall
    /\ \E row \in ArgVecs :
           Mutate(Call("append_row", [NoArgs EXCEPT !.v = row]),
                  AppendRow(data, n, m, row))

augment ==
    /\ CanCall
    /\ \E other \in Others :
           \E o \in Augment(data, n, m, other) :
               Mutate(Call("augment", [NoArgs EXCEPT !.v = other]), o)

scale_row ==
    /\ CanCall
    /\ \E i \in Idx, a \in Scalars :
           Mutate(Call("scale_row", [NoArgs EXCEPT !.i = i, !.a = a]),
                  ScaleRow(data, n, m, i, a))

add_scaled ==
    /\ CanCall
    /\ \E i \in Idx, j \in Idx, a \in Scalars :
           Mutate(Call("add_scaled", [NoArgs EXCEPT !.i = i, !.j = j, !.a = a]),
                  AddScaled(data, n, m, i, j, a))

reduce ==
    /\ CanCall
    /\ Mutate(Call("reduce", NoArgs), Reduce(data, n, m))

get_dimension ==
    /\ CanCall
    /\ Query(Call("get_dimension", NoArgs), "ok", GetDimension(n, m))

get_opt ==
    /\ CanCall
    /\ \E i \in Idx, j \in Idx :
           LET g == GetOpt(data, n, m, i, j)
           IN  Query(Call("get_opt", [NoArgs EXCEPT !.i = i, !.j = j]), g.status, g.ret)

get ==
    /\ CanCall
    /\ \E i \in Idx, j \in Idx :
           LET g == Get(data, i, j)
           IN  Query(Call("get", [NoArgs EXCEPT !.i = i, !.j = j]), g.status, g.ret)

is_rref ==
    /\ CanCall
    /\ Query(Call("is_rref", NoArgs), "ok", IsRref(data))

\* column_iter(col): a fresh view at row 0
column_iter ==
    /\ CanCall
    /\ \E col \in Idx :
           /\ it' = [live |-> TRUE, col |-> col, i |-> 0, log |-> <<>>]
           /\ op' = Call("column_iter", [NoArgs EXCEPT !.j = col])
    /\ ret' = "unit"
    /\ pre' = Snapshot
    /\ calls' = calls + 1
    /\ UNCHANGED <<data, n, m, status>>

\* ColumnIterator::next(); log records every Option returned.  Two requests
\* past the last row are enough to see exhaustion repeat.
next ==
    /\ status = "ok"
    /\ it.live
    /\ Len(it.log) < Len(data) + 2
    /\ LET r == ColumnNext(data, it.col, it.i)
       IN  /\ it' = [it EXCEPT !.i = IF r # <<>> THEN it.i + 1 ELSE it.i,
                               !.log = Append(it.log, r)]
           /\ ret' = r
    /\ op' = Call("next", NoArgs)
    /\ pre' = Snapshot
    /\ UNCHANGED <<data, n, m, status, calls>>

Next ==
    \/ swap_rows
    \/ set_row
    \/ append_column
    \/ append_row
    \/ augment
    \/ scale_row
    \/ add_scaled
    \/ reduce
    \/ get_dimension
    \/ get_opt
    \/ get
    \/ is_rref
    \/ column_iter
    \/ next

Spec == Init /\ [][Next]_vars

----------------------------------------------------------------------------
(* Specifications of single contracts: the inputs are the constructed       *)
(* matrices, and the matrices the tests of the source use.                  *)

\* test_add_scaled, test_column_iter: the matrix the tests start from
Mat123 == << <<1, 2, 3>>, <<4, 5, 6>>, <<7, 8, 9>> >>

\* test_is_rref: the matrices the test expects is_rref() to accept
RrefAccepted ==
    { << <<1, 2, 3>>, <<0, 0, 0>>, <<0, 0, 0>> >>,
      << <<0, 0, 0>>, <<0, 0, 0>>, <<0, 0, 0>> >>,
      << <<1, 0, 0>>, <<0, 1, 0>>, <<0, 0, 1>> >>,
      << <<1, 0, 0>>, <<0, 0, 1>>, <<0, 0, 0>> >>,
      << <<1, 1, 0>>, <<0, 0, 1>>, <<0, 0, 0>> >>,
      << <<1, 0, 2>>, <<0, 1, 6>>, <<0, 0, 0>> >> }

\* test_is_rref: the matrices the test expects is_rref() to reject
RrefRejected ==
    { << <<1, 2, 3>>, <<1, 5, 6>>, <<1, 8, 9>> >>,
      << <<1, 2, 3>>, <<0, 0, 0>>, <<1, 8, 9>> >>,
      << <<1, 2, 3>>, <<1, 5, 6>>, <<0, 0, 0>> >>,
      << <<1, 1, 2>>, <<0, 0, 1>>, <<0, 0, 0>> >> }

TestMatrices(vecs) == { FromVec(v)[1] : v \in vecs }

\* Shapes of at most MaxCells cells.
CellShapes == { s \in (0 .. MaxCells) \X (0 .. MaxCells) : s[1] * s[2] <= MaxCells }

\* The inputs: every matrix of at most MaxCells cells over {0, 1, 2}, and the
\* matrices of the tests.
InitInputs ==
    \E mat \in Constructed(CellShapes, {0, 1, 2})
                 \cup TestMatrices(RrefAccepted \cup RrefRejected \cup {Mat123}) :
        StartWith(mat)

\* reduce() and is_rref() on every input.
NextRref ==
    \/ reduce
    \/ is_rref

SpecRref == InitInputs /\ [][NextRref]_vars

\* The column view on every input.
NextView ==
    \/ column_iter
    \/ next

SpecView == InitInputs /\ [][NextView]_vars

\* add_scaled applied to an input.
add_scaled_first ==
    /\ calls = 0
    /\ add_scaled

NextRowOps == add_scaled_first

SpecRowOps == InitInputs /\ [][NextRowOps]_vars

----------------------------------------------------------------------------
(* Claims about the shape of the matrix. *)

\* The matrix a call began with was a pre.n x pre.m matrix.
WasMatrix == HasShape(pre.data, pre.n, pre.m)

NothingChanged == data = pre.data /\ n = pre.n /\ m = pre.m

\* C1: after any sequence of public calls that report no error, the stored
\* row count n is the number of rows held in data and every row held has
\* length equal to the stored column count m.
C1_ShapeInvariant == status = "ok" => HasShape(data, n, m)

\* C2: append_column with a column whose length is not the number of rows
\* held, append_row with a row whose length is not the number of columns held,
\* and augment with a matrix whose row count is not the number of rows held,
\* each return false and leave data, n and m as they were.
C2_AtomicRejection ==
    LET mismatch ==
            \/ /\ op.name = "append_column"
               /\ Len(op.v) # NumRows(pre.data)
            \/ /\ op.name = "append_row"
               /\ Rectangular(pre.data)
               /\ NumRows(pre.data) >= 1
               /\ Len(op.v) # NumCols(pre.data)
            \/ /\ op.name = "augment"
               /\ op.v.n # NumRows(pre.data)
    IN  mismatch => status = "ok" /\ ret = FALSE /\ NothingChanged

\* C3: on an r x c matrix, append_column with r values returns true, leaves
\* each row i as the old row i followed by values[i], makes the column count
\* c + 1 and keeps the row count r, so that get_dimension() is (c + 1, r).
C3_AppendColumnGrowsColumns ==
    (op.name = "append_column" /\ WasMatrix /\ Len(op.v) = pre.n)
    => /\ status = "ok"
       /\ ret = TRUE
       /\ Len(data) = pre.n
       /\ \A k \in 1 .. Len(data) : data[k] = Append(pre.data[k], op.v[k])
       /\ m = pre.m + 1
       /\ n = pre.n
       /\ GetDimension(n, m) = <<pre.m + 1, pre.n>>

\* C4: on a rows x cols matrix get_opt(i, j) never fails; it returns None
\* exactly when i >= rows or j >= cols, and otherwise the element at row i,
\* column j.
C4_GetOptTotal ==
    (op.name = "get_opt" /\ WasMatrix)
    => /\ status = "ok"
       /\ (ret = <<>>) <=> (op.i >= pre.n \/ op.j >= pre.m)
       /\ ret # <<>> => ret = << data[op.i + 1][op.j + 1] >>

----------------------------------------------------------------------------
(* Claims about reduce() and is_rref(). *)

\* C5: after reduce() the matrix satisfies is_rref().
C5_ReduceGivesRref ==
    (op.name = "reduce" /\ status = "ok") => IsRref(data)

\* C6: on a matrix with at least one row and one column reduce() never fails
\* on an index out of range.
C6_ReduceIndicesInRange ==
    (op.name = "reduce" /\ WasMatrix /\ pre.n >= 1 /\ pre.m >= 1)
    => status # "index_fail"

\* C7: a reduce() that directly follows a reduce() completes and leaves every
\* element, and the stored dimensions, as the first left them.
C7_ReduceIdempotent ==
    (op.name = "reduce" /\ pre.call = "reduce")
    => status = "ok" /\ NothingChanged

\* A second reduce() in a row has run on what the first made of the matrix
\* [[1,2,3],[1,5,6],[1,8,9]] of test_reduce: its last row divided by 8, which
\* is multiplied by 7 modulo 11.
C7_Witness ==
    /\ op.name = "reduce"
    /\ pre.call = "reduce"
    /\ status = "ok"
    /\ Len(ret) = 2
    /\ pre.data = << <<1, 2, 3>>, <<1, 5, 6>>, <<7, 1, 8>> >>
    /\ data = pre.data

\* The definition of reduced row-echelon form, for a rectangular matrix.
NonZeroRow(row) == ~AllZero(row)

\* The column (from 1) of the first nonzero entry of a nonzero row.
Leading(row) ==
    CHOOSE k \in 1 .. Len(row) :
        row[k] # Zero /\ \A l \in 1 .. (k - 1) : row[l] = Zero

RrefDefinition(d) ==
    LET rows == 1 .. Len(d)
    IN  /\ \A x \in rows, y \in rows :
               (x < y /\ AllZero(d[x])) => AllZero(d[y])
        /\ \A x \in rows : NonZeroRow(d[x]) => d[x][Leading(d[x])] = One
        /\ \A x \in rows, y \in rows :
               (x < y /\ NonZeroRow(d[x]) /\ NonZeroRow(d[y]))
               => Leading(d[x]) < Leading(d[y])
        /\ \A x \in rows, y \in rows :
               (x # y /\ NonZeroRow(d[x])) => d[y][Leading(d[x])] = Zero

\* C8: is_rref() is true exactly when zero rows lie below all others, the
\* first nonzero entry of each nonzero row is one, the columns of those
\* leading entries strictly increase downwards, and every other entry of such
\* a column is zero; so it is true of the zero matrix, of the identity and of
\* [[1,0,2],[0,1,6],[0,0,0]], and false of [[1,2,3],[1,5,6],[1,8,9]] and of
\* [[1,1,2],[0,0,1],[0,0,0]].
C8_IsRrefMeetsDefinition ==
    (op.name = "is_rref" /\ Rectangular(data))
    => /\ status = "ok"
       /\ ret = RrefDefinition(data)
       /\ data \in RrefAccepted => ret = TRUE
       /\ data \in RrefRejected => ret = FALSE

\* is_rref() has accepted [[1,0,2],[0,1,6],[0,0,0]].
C8_Witness ==
    /\ op.name = "is_rref"
    /\ data = << <<1, 0, 2>>, <<0, 1, 6>>, <<0, 0, 0>> >>
    /\ ret = TRUE

----------------------------------------------------------------------------
(* Claims about the column view and the row algebra. *)

\* C9: on a rows x cols matrix the successive next() of column_iter(c) with
\* c < cols return the entries (0, c), ..., (rows - 1, c) in that order and
\* then None; with c >= cols the first next() already returns None, without
\* failing; and after a None every later next() returns None.
C9_ColumnView ==
    (it.live /\ Rectangular(data))
    => /\ status = "ok"
       /\ \A k \in 1 .. Len(it.log) :
              it.log[k] = IF it.col < NumCols(data) /\ k <= NumRows(data)
                          THEN << data[k][it.col + 1] >>
                          ELSE <<>>

\* column_iter(0) on [[1,2,3],[4,5,6],[7,8,9]] has yielded 1, 4, 7 and then
\* None twice.
C9_Witness ==
    /\ it.live
    /\ it.col = 0
    /\ data = Mat123
    /\ it.log = << <<1>>, <<4>>, <<7>>, <<>>, <<>> >>

\* C10: add_scaled(source, target, a) with distinct rows in range leaves
\* target[col] = source[col] * a + old target[col] in every column, and
\* leaves every other row, the source row included, and the dimensions as
\* they were; with source 0, target 1 and a = 1 on [[1,2,3],[4,5,6],[7,8,9]]
\* row 1 becomes [5,7,9] and row 0 stays [1,2,3].
C10_AddScaled ==
    (/\ op.name = "add_scaled"
     /\ Rectangular(pre.data)
     /\ InBounds(pre.data, op.i)
     /\ InBounds(pre.data, op.j)
     /\ op.i # op.j)
    => LET source == pre.data[op.i + 1]
           target == pre.data[op.j + 1]
       IN  /\ status = "ok"
           /\ Len(data) = Len(pre.data)
           /\ Len(data[op.j + 1]) = Len(target)
           /\ \A col \in 1 .. Len(target) :
                  data[op.j + 1][col] = (source[col] * op.a + target[col]) % P
           /\ \A k \in 1 .. Len(data) : k # op.j + 1 => data[k] = pre.data[k]
           /\ n = pre.n
           /\ m = pre.m
           /\ (pre.data = Mat123 /\ op.i = 0 /\ op.j = 1 /\ op.a = 1)
              => (data[2] = <<5, 7, 9>> /\ data[1] = <<1, 2, 3>>)

\* add_scaled(0, 1, 1) has run on [[1,2,3],[4,5,6],[7,8,9]].
C10_Witness ==
    /\ op.name = "add_scaled"
    /\ op.i = 0 /\ op.j = 1 /\ op.a = 1
    /\ pre.data = Mat123
    /\ data = << <<1, 2, 3>>, <<5, 7, 9>>, <<7, 8, 9>> >>
    /\ status = "ok"

----------------------------------------------------------------------------
\* C11: whenever reduce() scales a pivot row for column j, the entry of that
\* row in column j that it divides by is not zero, and right after the
\* scaling that entry is one.
C11_PivotNormalised ==
    (op.name = "reduce" /\ WasMatrix /\ pre.n >= 1 /\ pre.m >= 1)
        => \A k \in 1 .. Len(ret) :
               /\ ret[k].divisor # Zero
               /\ ret[k].after = <<One>>

====
